---- MODULE Spec2Model ----
(***************************************************************************)
(* A model of the recipe crawler: sitemap discovery (sitemap_parser.py),   *)
(* page extraction and the batch run (content_extractor.py), and the       *)
(* robots analyser (crawlability_checker.py).                              *)
(*                                                                         *)
(* Strings are sequences of one-character strings, so that substring,      *)
(* suffix and truncation are computed and not assumed.                     *)
(***************************************************************************)
EXTENDS Integers, Sequences, FiniteSets, TLC

VARIABLES
    network,      \* the site crawled, by name: what it may answer is Indexes, Bodies, Pages
    limit,        \* the limit argument
    pc,           \* position in the running call
    exception,    \* the exception that ended the call, or "none"
    fetchLog,     \* requests.get calls made so far, with the response each got
    links,        \* the value get_recipe_sitemap_links returned, or NoValue
    sitemaps,     \* get_recipe_sitemap_links()[:3], the list the loop runs over
    i,            \* 1-based position of the loop in sitemaps
    recipe_urls,  \* the accumulator of extract_all_recipe_urls
    result,       \* the value extract_all_recipe_urls returned, or NoValue
    url,          \* the argument of the running extract_recipe_data call
    soup,         \* the parsed page of the running extract_recipe_data call
    idx,          \* 1-based position of batch_scrape_and_save's loop
    all_recipes,  \* the records batch_scrape_and_save retained
    extracted,    \* the records extract_recipe_data returned so far
    driver,       \* browser sessions: [opened |-> count, open |-> count]
    navLog,       \* driver.get calls made so far, with whether the page rendered
    file,         \* the output file: who wrote it last, and its contents
    writes,       \* how many times the output file was opened for writing
    printed,      \* the count of the final "Saved N recipes" line, or NoValue
    ret,          \* what batch_scrape_and_save returned, or NoValue
    robotsLog,    \* requests.get calls of analyze_robots_txt, with the response each got
    robots,       \* the locals of analyze_robots_txt: lines, position n, the four results
    summary       \* the value analyze_robots_txt returned, or NoValue

batchVars == <<url, soup, idx, all_recipes, extracted, driver, navLog, file, writes, printed,
               ret>>
vars == <<network, limit, pc, exception, fetchLog, links, sitemaps, i, recipe_urls, result,
          url, soup, idx, all_recipes, extracted, driver, navLog, file, writes, printed, ret,
          robotsLog, robots, summary>>
robotsVars == <<robotsLog, robots, summary>>

----------------------------------------------------------------------------
(* Bounds of the model *)

MaxLimit == 3
MaxLocs == 2
MaxIndex == 4
MaxElems == 2
MaxAbsent == 1
MaxItems == 3
MaxSteps == 2
MaxLines == 3

----------------------------------------------------------------------------
(* Strings *)

\* a call's return value: none while the call has not returned
NoValue == [returned |-> FALSE]
Returned(v) == [returned |-> TRUE, value |-> v]

Take(s, n) == SubSeq(s, 1, IF n < Len(s) THEN n ELSE Len(s))

SeqsUpTo(S, n) == UNION {[1..k -> S] : k \in 0..n}

\* sub in s (Python's substring test)
Contains(sub, s) ==
    \E k \in 0..(Len(s) - Len(sub)) : SubSeq(s, k + 1, k + Len(sub)) = sub

\* s.endswith(suf)
EndsWith(s, suf) ==
    /\ Len(suf) <= Len(s)
    /\ SubSeq(s, Len(s) - Len(suf) + 1, Len(s)) = suf

----------------------------------------------------------------------------
(* sitemap_parser.py *)

RecipeSitemapMarker == <<"r","e","c","i","p","e","-","s","i","t","e","m","a","p">>
RecipesMarker == <<"/","r","e","c","i","p","e","s","/">>
ImageSuffixes == { <<".","j","p","g">>, <<".","p","n","g">>, <<".","j","p","e","g">> }

\* variant: one sitemap more than the cap
NoSitemapCap == 3 + 1
\* the [:3] of line 28
SitemapCap == 3

\* variant: the marker without regard to the case of its first letter
IsRecipeSitemapAnyCase(loc) == Contains(Tail(RecipeSitemapMarker), loc)
\* line 16: "recipe-sitemap" in url
IsRecipeSitemap(loc) == Contains(RecipeSitemapMarker, loc)

\* lines 15-17: the locations of the index, filtered
RecipeSitemapLinks(locs) == SelectSeq(locs, IsRecipeSitemap)

\* line 31: "/recipes/" in u and not u.endswith((".jpg", ".png", ".jpeg"))
IsRecipeUrl(u) ==
    /\ Contains(RecipesMarker, u)
    /\ ~ \E suf \in ImageSuffixes : EndsWith(u, suf)

\* line 31
FilterRecipeUrls(urls) == SelectSeq(urls, IsRecipeUrl)

\* variant: the loop goes on at exactly limit entries
LimitExceeded(acc, lim) == Len(acc) > lim
\* line 33: len(recipe_urls) >= limit
LimitReached(acc, lim) == Len(acc) >= lim

\* variant: the accumulator returned whole
Untruncated(acc, lim) == acc
\* line 35: recipe_urls[:limit]
Truncate(acc, lim) == Take(acc, lim)

----------------------------------------------------------------------------
(* Text: Python's str and re operations used by content_extractor.py *)

UpperCase == <<"A","B","C","D","E","F","G","H","I","J","K","L","M","N","O","P","Q","R","S","T","U","V","W","X","Y","Z">>
LowerCase == <<"a","b","c","d","e","f","g","h","i","j","k","l","m","n","o","p","q","r","s","t","u","v","w","x","y","z">>
DigitChars == {"0","1","2","3","4","5","6","7","8","9"}
Letters == {UpperCase[k] : k \in 1..Len(UpperCase)} \cup {LowerCase[k] : k \in 1..Len(LowerCase)}

\* \w of the re module
IsWordChar(c) == c \in Letters \cup DigitChars \cup {"_"}
IsSpace(c) == c \in {" ", "\t", "\n"}

\* str.lower
LowerChar(c) ==
    IF \E k \in 1..Len(UpperCase) : UpperCase[k] = c
    THEN LowerCase[CHOOSE k \in 1..Len(UpperCase) : UpperCase[k] = c]
    ELSE c
Lower(s) == [k \in 1..Len(s) |-> LowerChar(s[k])]

RECURSIVE LStrip(_)
LStrip(s) == IF s # <<>> /\ IsSpace(Head(s)) THEN LStrip(Tail(s)) ELSE s
RECURSIVE RStrip(_)
RStrip(s) == IF s # <<>> /\ IsSpace(s[Len(s)]) THEN RStrip(SubSeq(s, 1, Len(s) - 1)) ELSE s
\* str.strip
Strip(s) == RStrip(LStrip(s))

RECURSIVE Join(_, _)
\* sep.join(parts)
Join(sep, parts) ==
    IF parts = <<>> THEN <<>>
    ELSE IF Len(parts) = 1 THEN parts[1]
    ELSE parts[1] \o sep \o Join(sep, Tail(parts))

RECURSIVE Words(_)
\* the runs of word characters of s, left to right: the first run, then those after it
Words(s) ==
    IF \A k \in 1..Len(s) : ~IsWordChar(s[k]) THEN <<>>
    ELSE LET a == CHOOSE k \in 1..Len(s) :
                      IsWordChar(s[k]) /\ \A j \in 1..(k - 1) : ~IsWordChar(s[j])
             b == CHOOSE k \in a..Len(s) :
                      /\ \A j \in a..k : IsWordChar(s[j])
                      /\ (k = Len(s) \/ ~IsWordChar(s[k + 1]))
         IN <<SubSeq(s, a, b)>> \o Words(SubSeq(s, b + 1, Len(s)))
\* re.findall(r'\b\w+\b', s): the maximal runs of word characters
FindWords(s) == Words(s)

\* variant: the position of the last ":" of s
LastColon(s) ==
    IF \E k \in 1..Len(s) : s[k] = ":"
    THEN CHOOSE k \in 1..Len(s) : s[k] = ":" /\ \A j \in (k + 1)..Len(s) : s[j] # ":"
    ELSE 0
\* position of the first ":" of s, 0 when there is none
FirstColon(s) ==
    IF \E k \in 1..Len(s) : s[k] = ":"
    THEN CHOOSE k \in 1..Len(s) : s[k] = ":" /\ \A j \in 1..(k - 1) : s[j] # ":"
    ELSE 0

Count(w, ws) == Cardinality({k \in 1..Len(ws) : ws[k] = w})

RECURSIVE Distinct(_)
\* the keys of Counter(ws), in insertion order
Distinct(ws) ==
    IF ws = <<>> THEN <<>>
    ELSE <<Head(ws)>> \o Distinct(SelectSeq(Tail(ws), LAMBDA w : w # Head(ws)))

RECURSIVE SortByCount(_, _)
\* sorted by count, descending; equal counts keep their order
SortByCount(keys, ws) ==
    IF keys = <<>> THEN <<>>
    ELSE LET best == CHOOSE k \in 1..Len(keys) :
                         /\ \A j \in 1..Len(keys) : Count(keys[j], ws) <= Count(keys[k], ws)
                         /\ \A j \in 1..(k - 1) : Count(keys[j], ws) < Count(keys[k], ws)
         IN <<keys[best]>>
              \o SortByCount(SubSeq(keys, 1, best - 1) \o SubSeq(keys, best + 1, Len(keys)), ws)

\* variant: the first n keys in insertion order, not ranked
FirstSeen(ws, n) == Take(Distinct(ws), n)
\* [w for w, _ in Counter(ws).most_common(n)]
MostCommon(ws, n) == Take(SortByCount(Distinct(ws), ws), n)

----------------------------------------------------------------------------
(* The rendered document: its elements in document order.  An element has  *)
(* a tag, its class tokens, the containers it lies within, its attributes  *)
(* (each absent, {}, or present, {value}) and one text node.               *)

El(tag, cls, within, attrs, text) ==
    [tag |-> tag, cls |-> cls, within |-> within, attrs |-> attrs, text |-> text]
NoAttrs == [name |-> {}, content |-> {}, src |-> {}]

HasAttr(el, a) == el.attrs[a] # {}
Attr(el, a) == CHOOSE v \in el.attrs[a] : TRUE
\* el.get_text(strip=True)
GetText(el) == Strip(el.text)

\* the selectors of extract_recipe_data
SelH1(el) == el.tag = "h1"
SelMetaDescription(el) == el.tag = "meta" /\ el.attrs.name = {"description"}
SelRecipeImageImg(el) == el.tag = "img" /\ "div.recipe-image" \in el.within
SelPrimaryImage(el) == el.tag = "img" /\ "primary-image" \in el.cls
SelImg(el) == el.tag = "img"
SelIngredientLi(el) == el.tag = "li" /\ "ul.recipe-ingredients__list" \in el.within
SelDirectionsItem(el) == el.tag = "li" /\ "recipe-directions__item" \in el.cls
SelStepLi(el) == el.tag = "li" /\ "step" \in el.cls
SelReviewAverage(el) == el.tag = "span" /\ "review-average" \in el.cls
SelPrepTime(el) == el.tag = "span" /\ "prep-time" \in el.cls
SelCookTime(el) == el.tag = "span" /\ "cook-time" \in el.cls
SelTotalTime(el) == el.tag = "span" /\ "total-time" \in el.cls
SelNutritionLi(el) == el.tag = "li" /\ "div.nutrition-section" \in el.within
SelCategoryLink(el) == el.tag = "a" /\ "category-link" \in el.cls

Texts(els) == [k \in 1..Len(els) |-> GetText(els[k])]
NonEmpty(s) == s # <<>>

\* the sentinel
NA == <<"N","/","A">>

\* lines 30-34, on the elements the selector matches; attr is "" for safe_get(selector)
SafeGet(found, attr) ==
    IF found = <<>> THEN NA
    ELSE IF attr # "" /\ HasAttr(found[1], attr)
         THEN Strip(Attr(found[1], attr))
         ELSE GetText(found[1])

\* variant: a selector whose first match has no src gives way to the next one
ImageUrlWithSource(doc) ==
    LET a == SelectSeq(doc, SelRecipeImageImg)
        b == SelectSeq(doc, SelPrimaryImage)
        c == SelectSeq(doc, SelImg)
        Usable(found) == found # <<>> /\ HasAttr(found[1], "src")
        img == IF Usable(a) THEN a ELSE IF Usable(b) THEN b ELSE c
    IN IF img # <<>> /\ HasAttr(img[1], "src") THEN Attr(img[1], "src") ELSE NA
\* lines 40-45
ImageUrl(doc) ==
    LET a == SelectSeq(doc, SelRecipeImageImg)
        b == SelectSeq(doc, SelPrimaryImage)
        c == SelectSeq(doc, SelImg)
        img == IF a # <<>> THEN a ELSE IF b # <<>> THEN b ELSE c
    IN IF img # <<>> /\ HasAttr(img[1], "src") THEN Attr(img[1], "src") ELSE NA

\* lines 48-52
Ingredients(doc) == SelectSeq(Texts(SelectSeq(doc, SelIngredientLi)), NonEmpty)

\* lines 53-59
Steps(doc) ==
    LET steps == Texts(SelectSeq(doc, SelDirectionsItem)) IN
    IF steps = <<>> THEN Texts(SelectSeq(doc, SelStepLi)) ELSE steps

RECURSIVE NutritionOf(_, _)
\* lines 68-73
NutritionOf(items, d) ==
    IF items = <<>> THEN d
    ELSE LET text == GetText(Head(items))
             k == FirstColon(text)
             key == Strip(SubSeq(text, 1, k - 1))
             val == Strip(SubSeq(text, k + 1, Len(text)))
         IN IF k > 0
            THEN NutritionOf(Tail(items),
                     [x \in (DOMAIN d) \cup {key} |-> IF x = key THEN val ELSE d[x]])
            ELSE NutritionOf(Tail(items), d)
Nutrition(doc) == NutritionOf(SelectSeq(doc, SelNutritionLi), <<>>)

\* line 76
Categories(doc) == Texts(SelectSeq(doc, SelCategoryLink))

\* lines 81-84
Stopwords ==
    { <<"t","h","e">>, <<"a","n","d">>, <<"f","o","r">>,
      <<"w","i","t","h">>, <<"t","h","a","t">>, <<"t","h","i","s">>,
      <<"f","r","o","m">>, <<"w","i","l","l">>, <<"h","a","v","e">>,
      <<"a","l","s","o">>, <<"w","h","e","n">>, <<"w","h","i","c","h">>,
      <<"y","o","u","r">>, <<"m","o","r","e">>, <<"m","a","k","e">>,
      <<"t","h","e","m">>, <<"t","h","e","i","r">>, <<"j","u","s","t">>,
      <<"t","h","a","n">> }
\* line 86: most_common(10)
KeywordCap == 10
\* line 85: len(w) > 3
MinKeywordLen == 3
IsKeyword(w) == w \notin Stopwords /\ Len(w) > MinKeywordLen

\* lines 79-86
Keywords(description, steps) ==
    LET text_blob == description \o <<" ">> \o Join(<<" ">>, steps)
        words == FindWords(Lower(text_blob))
        filtered == SelectSeq(words, IsKeyword)
    IN MostCommon(filtered, KeywordCap)

\* variant: the title stands in for a missing description
DescriptionOrTitle(doc) ==
    IF SelectSeq(doc, SelMetaDescription) = <<>>
    THEN SafeGet(SelectSeq(doc, SelH1), "")
    ELSE SafeGet(SelectSeq(doc, SelMetaDescription), "content")
\* line 37
Description(doc) == SafeGet(SelectSeq(doc, SelMetaDescription), "content")

\* lines 30-102: the record extract_recipe_data builds from the parsed page
ExtractRecord(u, doc) ==
    [url |-> u,
     title |-> SafeGet(SelectSeq(doc, SelH1), ""),
     description |-> Description(doc),
     image_url |-> ImageUrl(doc),
     ingredients |-> Ingredients(doc),
     instructions |-> Steps(doc),
     rating |-> SafeGet(SelectSeq(doc, SelReviewAverage), ""),
     prep_time |-> SafeGet(SelectSeq(doc, SelPrepTime), ""),
     cook_time |-> SafeGet(SelectSeq(doc, SelCookTime), ""),
     total_time |-> SafeGet(SelectSeq(doc, SelTotalTime), ""),
     nutrition |-> Nutrition(doc),
     categories |-> Categories(doc),
     keywords |-> Keywords(Description(doc), Steps(doc))]

----------------------------------------------------------------------------
(* The crawled site *)

IndexUrl == <<"s","i","t","e","m","a","p","_","i","n","d","e","x">>

Digit(k) == <<"0","1","2","3","4","5","6","7","8","9">>[k + 1]

\* child sitemap locations an index may list
SitemapName(k) == RecipeSitemapMarker \o <<Digit(k)>>
PostSitemap == <<"p","o","s","t","-","s","i","t","e","m","a","p">>
CapitalSitemap == <<"R">> \o Tail(RecipeSitemapMarker)

\* locations a child sitemap may list
UrlA == RecipesMarker \o <<"a">>
UrlB == RecipesMarker \o <<"b">>
UrlImg == UrlA \o <<".","j","p","g">>
UrlTag == <<"/","t","a","g","/","a">>

\* variant: only server errors raise
RaisesForStatusMut(status) == status >= 500 /\ status < 600
\* requests' raise_for_status raises on 4xx and 5xx
RaisesForStatus(status) == status >= 400 /\ status < 600

Response(status, locs) == [status |-> status, locs |-> locs]
Failures == {Response(404, <<>>), Response(503, <<>>)}

\* the index lists the first n recipe sitemaps, with other entries among them
IndexOf(n) == [k \in 1..n |-> SitemapName(k)]
CollectIndexes ==
    {Response(200, IndexOf(n)) : n \in 0..(MaxIndex - 1)}
        \cup {Response(200, <<PostSitemap>> \o IndexOf(MaxIndex) \o <<CapitalSitemap>>)}
        \cup Failures
BodiesOver(pool) ==
    {Response(200, locs) : locs \in SeqsUpTo(pool, MaxLocs)} \cup Failures

\* the indexes served to a call of get_recipe_sitemap_links on its own
ResolverIndexes ==
    {Response(200, locs) :
        locs \in SeqsUpTo({SitemapName(1), SitemapName(2), PostSitemap, CapitalSitemap}, MaxIndex)}
      \cup Failures

MetaDescription == El("meta", {}, {}, [NoAttrs EXCEPT !.name = {"description"}, !.content = {<<" ","C","r","e","a","m","y"," ","s","o","u","p"," ">>}], <<>>)
MetaNoContent == El("meta", {}, {}, [NoAttrs EXCEPT !.name = {"description"}], <<>>)
Heading == El("h1", {}, {}, NoAttrs, <<" ","S","o","u","p"," ">>)
RecipeImg == El("img", {}, {"div.recipe-image"}, [NoAttrs EXCEPT !.src = {<<"a",".","p","n","g">>}], <<>>)
PrimaryImgNoSrc == El("img", {"primary-image"}, {}, NoAttrs, <<>>)
PlainImg == El("img", {}, {}, [NoAttrs EXCEPT !.src = {<<"b",".","p","n","g">>}], <<>>)
IngredientLi == El("li", {}, {"ul.recipe-ingredients__list"}, NoAttrs, <<"s","a","l","t">>)
BlankIngredientLi == El("li", {}, {"ul.recipe-ingredients__list"}, NoAttrs, <<" ">>)
StepIngredientLi == El("li", {"step"}, {"ul.recipe-ingredients__list"}, NoAttrs, <<"e","g","g","s">>)
DirectionLi == El("li", {"recipe-directions__item"}, {}, NoAttrs, <<"S","t","i","r"," ","s","o","u","p">>)
StepLi == El("li", {"step"}, {}, NoAttrs, <<"B","o","i","l"," ","s","o","u","p">>)
RatingSpan == El("span", {"review-average"}, {}, NoAttrs, <<"4">>)
PrepSpan == El("span", {"prep-time"}, {}, NoAttrs, <<"5","m">>)
CookSpan == El("span", {"cook-time"}, {}, NoAttrs, <<"9","m">>)
TotalSpan == El("span", {"total-time"}, {}, NoAttrs, <<"1","4","m">>)
NutritionLi == El("li", {}, {"div.nutrition-section"}, NoAttrs, <<"F","a","t",":"," ","1","g">>)
CategoryLink == El("a", {"category-link"}, {}, NoAttrs, <<"S","o","u","p","s">>)

\* a page with every element the extractor looks for
FullDoc ==
    <<MetaDescription, Heading, RecipeImg, PrimaryImgNoSrc, PlainImg, IngredientLi,
      BlankIngredientLi, DirectionLi, StepLi, RatingSpan, PrepSpan, CookSpan, TotalSpan,
      NutritionLi, CategoryLink>>
ElementPool == {FullDoc[k] : k \in 1..Len(FullDoc)} \cup {MetaNoContent, StepIngredientLi}

Without(doc, absent) == SelectSeq([k \in 1..Len(doc) |-> <<k, doc[k]>>], LAMBDA p : p[1] \notin absent)
Drop(doc, absent) == LET kept == Without(doc, absent) IN [k \in 1..Len(kept) |-> kept[k][2]]

Page(ok, doc) == [ok |-> ok, doc |-> doc]
FailedPage == Page(FALSE, <<>>)

\* pages of up to MaxElems elements, and the full page with up to MaxAbsent missing
ExtractDocs ==
    SeqsUpTo(ElementPool, MaxElems)
      \cup {Drop(FullDoc, absent) :
              absent \in {a \in SUBSET (1..Len(FullDoc)) : Cardinality(a) <= MaxAbsent}}
ExtractPages == {Page(TRUE, doc) : doc \in ExtractDocs} \cup {FailedPage}

\* the site of a batch run: two recipe sitemaps, three kinds of page
BatchIndexes == {Response(200, <<SitemapName(1), PostSitemap, SitemapName(2)>>), Response(404, <<>>)}
BatchBodies == {Response(200, <<UrlA, UrlImg>>), Response(200, <<UrlB, UrlA>>), Response(503, <<>>)}
BatchPages == {Page(TRUE, FullDoc), Page(TRUE, Drop(FullDoc, {6})), Page(TRUE, <<StepIngredientLi>>), FailedPage}

\* pages whose nutrition section lists up to MaxItems items
NutritionItem(text) == El("li", {}, {"div.nutrition-section"}, NoAttrs, text)
NutritionTexts ==
    { <<"F","a","t",":"," ","1","g">>, <<" ","F","a","t"," ",":","2",":","5"," ">>,
      <<"S","a","l","t">>, <<":","x">>, <<"I","r","o","n",":">> }
NutritionPages ==
    {Page(TRUE, doc) : doc \in SeqsUpTo({NutritionItem(t) : t \in NutritionTexts}, MaxItems)}
      \cup {FailedPage}

\* pages with a description and up to MaxSteps direction items
KeyWord(k) == <<"w","o","r","d">> \o <<LowerCase[k]>>
TextOf(ks) == Join(<<" ">>, [n \in 1..Len(ks) |-> KeyWord(ks[n])])
MetaWith(content) ==
    El("meta", {}, {}, [NoAttrs EXCEPT !.name = {"description"}, !.content = {content}], <<>>)
DirectionItem(text) == El("li", {"recipe-directions__item"}, {}, NoAttrs, text)
DescriptionTexts ==
    { <<"T","h","e"," ","q","u","i","c","k"," ","b","r","o","w","n"," ","f","o","x"," ","j","u","m","p","s">>,
      <<"T","h","i","s"," ">> \o TextOf(<<1, 2, 3, 4, 5, 6, 7, 8, 9, 10, 11, 12, 12>>),
      <<"W","i","t","h"," ","S","O","U","P",","," ","s","o","u","p","_","1"," ","p","o","t","-","a","u">> }
StepTexts ==
    { TextOf(<<11, 11, 11>>), TextOf(<<10, 10, 2>>),
      <<"S","t","i","r"," ","t","h","e"," ","Q","u","i","c","k"," ","s","o","u","p">>, <<>> }
KeywordDocs ==
    {head \o [n \in 1..Len(steps) |-> DirectionItem(steps[n])] :
        head \in {<<>>} \cup {<<MetaWith(d)>> : d \in DescriptionTexts},
        steps \in SeqsUpTo(StepTexts, MaxSteps)}
KeywordPages == {Page(TRUE, doc) : doc \in KeywordDocs} \cup {FailedPage}

\* pages of up to MaxItems elements: images of the three kinds, with and without src
RecipeImgNoSrc == El("img", {}, {"div.recipe-image"}, NoAttrs, <<>>)
PrimaryImg == El("img", {"primary-image"}, {}, [NoAttrs EXCEPT !.src = {<<" ","c"," ">>}], <<>>)
PlainImgNoSrc == El("img", {}, {}, NoAttrs, <<>>)
ImageElements ==
    {RecipeImg, RecipeImgNoSrc, PrimaryImg, PrimaryImgNoSrc, PlainImg, PlainImgNoSrc, Heading}
ImagePages == {Page(TRUE, doc) : doc \in SeqsUpTo(ImageElements, MaxItems)} \cup {FailedPage}

\* pages of up to MaxItems list items: direction items, step items, others
StepItem(cls, text) == El("li", cls, {}, NoAttrs, text)
StepItems ==
    { DirectionItem(<<" ","S","t","i","r"," ">>), DirectionItem(<<" ">>),
      StepItem({"step"}, <<"B","o","i","l">>), StepItem({"step", "wide"}, <<>>),
      StepItem({"steps"}, <<"M","i","x">>), StepItem({"step", "recipe-directions__item"}, <<"C","u","t">>) }
StepPages == {Page(TRUE, doc) : doc \in SeqsUpTo(StepItems, MaxItems)} \cup {FailedPage}

\* robots documents of up to MaxLines lines, and failed fetches
RobotsResponse(status, lines) == [status |-> status, lines |-> lines]
RobotsLines ==
    { <<"D","i","s","a","l","l","o","w",":"," ","/","a">>,
      <<"A","l","l","o","w",":","/","b",":","c">>,
      <<" ","S","I","T","E","M","A","P",":"," ","h",":","/","x"," ">>,
      <<"c","r","a","w","l","-","d","e","l","a","y",":"," ","2">>,
      <<"C","r","a","w","l","-","D","e","l","a","y",":","5">>,
      <<"d","i","s","a","l","l","o","w",":"," ","/","z">>,
      <<"#"," ","a",":","b">>,
      <<"D","i","s","a","l","l","o","w"," ","/","a">> }
RobotsDocuments ==
    {RobotsResponse(200, lines) : lines \in SeqsUpTo(RobotsLines, MaxLines)}
      \cup {RobotsResponse(st, <<>>) : st \in {204, 404, 503}}
      \cup {RobotsResponse(204, <<l>>) : l \in RobotsLines}
RobotsResponses(site) == IF site = "robots" THEN RobotsDocuments ELSE {}

\* the sites of the specifications, by name
Indexes(site) ==
    CASE site = "resolver" -> ResolverIndexes
      [] site \in {"images", "tags"} -> CollectIndexes
      [] site = "batch" -> BatchIndexes
      [] OTHER -> {}
Bodies(site) ==
    CASE site = "images" -> BodiesOver({UrlA, UrlB, UrlImg})
      [] site = "tags" -> BodiesOver({UrlA, UrlB, UrlTag})
      [] site = "batch" -> BatchBodies
      [] OTHER -> {}
Pages(site) ==
    CASE site = "pages" -> ExtractPages
      [] site = "nutrition" -> NutritionPages
      [] site = "keywords" -> KeywordPages
      [] site = "steps" -> StepPages
      [] site = "image" -> ImagePages
      [] site = "batch" -> BatchPages
      [] OTHER -> {}

----------------------------------------------------------------------------
(* extract_all_recipe_urls, step by step *)

Fetch(target, resp) ==
    Append(fetchLog, [url |-> target, status |-> resp.status, locs |-> resp.locs])

Raise(name) ==
    /\ exception' = name
    /\ pc' = "failed"

\* lines 10-17, called from line 28
GetRecipeSitemapLinks ==
    /\ pc = "index"
    /\ \E resp \in Indexes(network) :
        /\ fetchLog' = Fetch(IndexUrl, resp)
        /\ IF RaisesForStatus(resp.status)
           THEN /\ Raise("HTTPError")
                /\ UNCHANGED links
           ELSE /\ links' = Returned(RecipeSitemapLinks(resp.locs))
                /\ pc' = "links"
                /\ UNCHANGED exception
    /\ UNCHANGED <<network, limit, sitemaps, i, recipe_urls, result>>
    /\ UNCHANGED <<batchVars, robotsVars>>

\* line 28: the loop starts over the first 3 links
StartLoop ==
    /\ pc = "links"
    /\ sitemaps' = Take(links.value, SitemapCap)
    /\ i' = 1
    /\ pc' = IF Take(links.value, SitemapCap) = <<>> THEN "return" ELSE "loop"
    /\ UNCHANGED <<network, limit, exception, fetchLog, links, recipe_urls, result>>
    /\ UNCHANGED <<batchVars, robotsVars>>

\* lines 29-34: one pass of the loop body
ExtractUrlsFromSitemap ==
    /\ pc = "loop"
    /\ i <= Len(sitemaps)
    /\ \E resp \in Bodies(network) :
        /\ fetchLog' = Fetch(sitemaps[i], resp)
        /\ IF RaisesForStatus(resp.status)
           THEN /\ Raise("HTTPError")
                /\ UNCHANGED <<recipe_urls, i>>
           ELSE LET acc == recipe_urls \o FilterRecipeUrls(resp.locs) IN
                /\ recipe_urls' = acc
                /\ IF LimitReached(acc, limit)
                   THEN pc' = "return" /\ UNCHANGED i
                   ELSE /\ i' = i + 1
                        /\ pc' = IF i + 1 > Len(sitemaps) THEN "return" ELSE "loop"
                /\ UNCHANGED exception
    /\ UNCHANGED <<network, limit, sitemaps, links, result>>
    /\ UNCHANGED <<batchVars, robotsVars>>

\* line 35
ReturnRecipeUrls ==
    /\ pc = "return"
    /\ result' = Returned(Truncate(recipe_urls, limit))
    /\ pc' = "collected"
    /\ UNCHANGED <<network, limit, exception, fetchLog, sitemaps, links, i, recipe_urls>>
    /\ UNCHANGED <<batchVars, robotsVars>>

NextCollect ==
    \/ GetRecipeSitemapLinks
    \/ StartLoop
    \/ ExtractUrlsFromSitemap
    \/ ReturnRecipeUrls

----------------------------------------------------------------------------
(* extract_recipe_data and batch_scrape_and_save, step by step *)

\* Python's None
PyNone == [type |-> "NoneType"]
PyInt(n) == [type |-> "int", val |-> n]

collectVars == <<limit, exception, fetchLog, links, sitemaps, i, recipe_urls, result>>

\* lines 105-106: makedirs, then the call of extract_all_recipe_urls(limit)
BatchStart ==
    /\ pc = "start"
    /\ pc' = "index"
    /\ UNCHANGED <<network, collectVars>>
    /\ UNCHANGED <<batchVars, robotsVars>>

\* variant: the loop ends one URL early
LoopDoneEarly(n, urls) == n >= Len(urls)
\* line 109: the loop over recipe_urls ends when position n is past the last URL
LoopDone(n, urls) == n > Len(urls)

\* lines 106-109: the URL list is back and the loop starts
StartScrape ==
    /\ pc = "collected"
    /\ all_recipes' = <<>>
    /\ idx' = 1
    /\ IF LoopDone(1, result.value)
       THEN pc' = "write" /\ UNCHANGED url
       ELSE pc' = "open" /\ url' = result.value[1]
    /\ UNCHANGED <<network, collectVars, robotsVars>>
    /\ UNCHANGED <<soup, extracted, driver, navLog, file, writes, printed, ret>>

\* lines 16-23: webdriver.Chrome(...)
OpenSession ==
    /\ pc = "open"
    /\ driver' = [opened |-> driver.opened + 1, open |-> driver.open + 1]
    /\ pc' = "navigate"
    /\ UNCHANGED <<network, collectVars, robotsVars>>
    /\ UNCHANGED <<url, soup, idx, all_recipes, extracted, navLog, file, writes, printed, ret>>

\* variant: the failure is caught, the session closed and the next URL taken
NavigateSkipping ==
    /\ pc = "navigate"
    /\ \E page \in Pages(network) :
        /\ navLog' = Append(navLog, [url |-> url, ok |-> page.ok])
        /\ IF page.ok
           THEN /\ soup' = page.doc
                /\ pc' = "parse"
                /\ UNCHANGED <<driver, idx, url>>
           ELSE /\ driver' = [driver EXCEPT !.open = driver.open - 1]
                /\ idx' = idx + 1
                /\ IF idx + 1 > Len(result.value)
                   THEN pc' = "write" /\ UNCHANGED url
                   ELSE pc' = "open" /\ url' = result.value[idx + 1]
                /\ UNCHANGED soup
    /\ UNCHANGED <<network, collectVars, robotsVars>>
    /\ UNCHANGED <<all_recipes, extracted, file, writes, printed, ret>>

\* variant: the session is released before the failure propagates
NavigateReleasing ==
    /\ pc = "navigate"
    /\ \E page \in Pages(network) :
        /\ navLog' = Append(navLog, [url |-> url, ok |-> page.ok])
        /\ IF page.ok
           THEN /\ soup' = page.doc
                /\ pc' = "parse"
                /\ UNCHANGED <<exception, driver>>
           ELSE /\ Raise("WebDriverException")
                /\ driver' = [driver EXCEPT !.open = driver.open - 1]
                /\ UNCHANGED soup
    /\ UNCHANGED <<network, limit, fetchLog, links, sitemaps, i, recipe_urls, result>>
    /\ UNCHANGED <<url, idx, all_recipes, extracted, file, writes, printed, ret>>
    /\ UNCHANGED robotsVars

\* lines 23-26: driver.get(url), the settle delay, driver.page_source parsed
Navigate ==
    /\ pc = "navigate"
    /\ \E page \in Pages(network) :
        /\ navLog' = Append(navLog, [url |-> url, ok |-> page.ok])
        /\ IF page.ok
           THEN /\ soup' = page.doc
                /\ pc' = "parse"
                /\ UNCHANGED exception
           ELSE /\ Raise("WebDriverException")
                /\ UNCHANGED soup
    /\ UNCHANGED <<network, limit, fetchLog, links, sitemaps, i, recipe_urls, result>>
    /\ UNCHANGED <<url, idx, all_recipes, extracted, driver, file, writes, printed, ret>>
    /\ UNCHANGED robotsVars

\* variant: the record is returned without driver.quit()
ParseAndLeaveOpen ==
    /\ pc = "parse"
    /\ extracted' = Append(extracted, ExtractRecord(url, soup))
    /\ pc' = "returned"
    /\ UNCHANGED <<network, collectVars, robotsVars>>
    /\ UNCHANGED <<url, soup, idx, all_recipes, driver, navLog, file, writes, printed, ret>>

\* lines 27-102: driver.quit(), the fields, the record returned
ParseAndReturn ==
    /\ pc = "parse"
    /\ driver' = [driver EXCEPT !.open = driver.open - 1]
    /\ extracted' = Append(extracted, ExtractRecord(url, soup))
    /\ pc' = "returned"
    /\ UNCHANGED <<network, collectVars, robotsVars>>
    /\ UNCHANGED <<url, soup, idx, all_recipes, navLog, file, writes, printed, ret>>

\* variant: every record is kept
DiscardsNothing(data) == TRUE
\* line 112: data and data["ingredients"]
Retained(data) == data.ingredients # <<>>

\* lines 109-113: the record is kept or discarded, and the loop goes on
KeepRecord ==
    /\ pc = "returned"
    /\ LET data == extracted[Len(extracted)] IN
       all_recipes' = IF Retained(data) THEN Append(all_recipes, data) ELSE all_recipes
    /\ idx' = idx + 1
    /\ IF LoopDone(idx + 1, result.value)
       THEN pc' = "write" /\ UNCHANGED url
       ELSE pc' = "open" /\ url' = result.value[idx + 1]
    /\ UNCHANGED <<network, collectVars, robotsVars>>
    /\ UNCHANGED <<soup, extracted, driver, navLog, file, writes, printed, ret>>

\* variant: the count of the records extracted
ScrapedCount(recipes) == Len(extracted)
\* line 118: the count of the "Saved N recipes" line
SavedCount(recipes) == Len(recipes)

\* line 118 is the last of the function: it returns None
BatchReturn(recipes) == PyNone

\* lines 115-118: the file is written, the count printed, None returned
SaveRecipes ==
    /\ pc = "write"
    /\ file' = [by |-> "this run", content |-> all_recipes]
    /\ writes' = writes + 1
    /\ printed' = Returned(SavedCount(all_recipes))
    /\ ret' = Returned(BatchReturn(all_recipes))
    /\ pc' = "done"
    /\ UNCHANGED <<network, collectVars, robotsVars>>
    /\ UNCHANGED <<url, soup, idx, all_recipes, extracted, driver, navLog>>

NextExtract ==
    \/ OpenSession
    \/ Navigate
    \/ ParseAndReturn

NextBatch ==
    \/ BatchStart
    \/ NextCollect
    \/ StartScrape
    \/ NextExtract
    \/ KeepRecord
    \/ SaveRecipes

----------------------------------------------------------------------------
(* crawlability_checker.py: analyze_robots_txt, step by step *)

PyStr(s) == [type |-> "str", val |-> s]

\* s.startswith(pre)
StartsWith(s, pre) == Len(pre) <= Len(s) /\ SubSeq(s, 1, Len(pre)) = pre

RECURSIVE Split(_)
\* s.split(":")
Split(s) ==
    LET k == FirstColon(s) IN
    IF k = 0 THEN <<s>>
    ELSE <<SubSeq(s, 1, k - 1)>> \o Split(SubSeq(s, k + 1, Len(s)))
\* s.split(":", 1)
SplitOnce(s) ==
    LET k == FirstColon(s) IN
    IF k = 0 THEN <<s>>
    ELSE <<SubSeq(s, 1, k - 1), SubSeq(s, k + 1, Len(s))>>

\* parts[1].strip(): no value when parts has one entry only (IndexError)
SecondField(parts) == IF Len(parts) >= 2 THEN Returned(Strip(parts[2])) ELSE NoValue

DisallowPrefix == <<"D","i","s","a","l","l","o","w">>
AllowPrefix == <<"A","l","l","o","w">>
SitemapPrefix == <<"s","i","t","e","m","a","p">>
CrawlDelayPrefix == <<"c","r","a","w","l","-","d","e","l","a","y">>

\* lines 22-28: the branch a stripped line takes
LineKind(line) ==
    IF StartsWith(line, DisallowPrefix) THEN "disallowed"
    ELSE IF StartsWith(line, AllowPrefix) THEN "allowed"
    ELSE IF StartsWith(Lower(line), SitemapPrefix) THEN "sitemaps"
    ELSE IF StartsWith(Lower(line), CrawlDelayPrefix) THEN "crawl_delay"
    ELSE "other"

\* lines 23, 25, 27, 29: the field the branch takes from the line
LineField(line) ==
    IF LineKind(line) = "sitemaps" THEN SecondField(SplitOnce(line))
    ELSE SecondField(Split(line))

\* variant: only client and server errors count as a failed fetch
FetchFailedOnError(status) == status >= 400
\* line 11: response.status_code != 200
FetchFailed(status) == status # 200

\* line 12: the value returned in place of the summary
ErrorValue(status) == [k \in {"error"} |-> status]

\* lines 10-18: the robots document is fetched; a failed fetch returns the error value
FetchRobots ==
    /\ pc = "robots"
    /\ \E resp \in RobotsResponses(network) :
        /\ robotsLog' = Append(robotsLog, resp)
        /\ IF FetchFailed(resp.status)
           THEN /\ summary' = Returned(ErrorValue(resp.status))
                /\ pc' = "analyzed"
                /\ UNCHANGED robots
           ELSE /\ robots' = [lines |-> resp.lines, n |-> 1, disallowed |-> <<>>,
                              allowed |-> <<>>, sitemaps |-> <<>>, crawl_delay |-> PyNone]
                /\ pc' = "scan"
                /\ UNCHANGED summary
    /\ UNCHANGED <<network, collectVars, batchVars>>

\* lines 20-29: one pass of the loop over the lines
ScanLine ==
    /\ pc = "scan"
    /\ robots.n <= Len(robots.lines)
    /\ LET line == Strip(robots.lines[robots.n])
           kind == LineKind(line)
           field == LineField(line)
       IN IF kind = "other"
          THEN /\ robots' = [robots EXCEPT !.n = @ + 1]
               /\ UNCHANGED <<pc, exception>>
          ELSE IF ~field.returned
          THEN /\ Raise("IndexError")
               /\ UNCHANGED robots
          ELSE /\ robots' = [robots EXCEPT !.n = @ + 1,
                                           ![kind] = IF kind = "crawl_delay"
                                                     THEN PyStr(field.value)
                                                     ELSE Append(@, field.value)]
               /\ UNCHANGED <<pc, exception>>
    /\ UNCHANGED <<network, limit, fetchLog, links, sitemaps, i, recipe_urls, result>>
    /\ UNCHANGED <<batchVars, robotsLog, summary>>

\* lines 31-36
SummaryOf(locals) ==
    [k \in {"Allowed", "Disallowed", "Sitemaps", "Crawl-Delay"} |->
        CASE k = "Allowed" -> locals.allowed
          [] k = "Disallowed" -> locals.disallowed
          [] k = "Sitemaps" -> locals.sitemaps
          [] k = "Crawl-Delay" -> locals.crawl_delay]

\* lines 31-36: the loop is over and the summary is returned
ReturnSummary ==
    /\ pc = "scan"
    /\ robots.n > Len(robots.lines)
    /\ summary' = Returned(SummaryOf(robots))
    /\ pc' = "analyzed"
    /\ UNCHANGED <<network, collectVars, batchVars, robotsLog, robots>>

NextRobots ==
    \/ FetchRobots
    \/ ScanLine
    \/ ReturnSummary

----------------------------------------------------------------------------
(* The specifications *)

InitCollectVars ==
    /\ exception = "none"
    /\ fetchLog = <<>>
    /\ links = NoValue
    /\ sitemaps = <<>>
    /\ i = 0
    /\ recipe_urls = <<>>
    /\ result = NoValue

\* analyze_robots_txt has not been called
InitRobotsVars ==
    /\ robotsLog = <<>>
    /\ robots = [lines |-> <<>>, n |-> 0]
    /\ summary = NoValue

NoFile == [by |-> "nobody", content |-> <<>>]
EarlierFile == [by |-> "an earlier run", content |-> <<>>]

InitBatchVars ==
    /\ url = <<>>
    /\ soup = <<>>
    /\ idx = 0
    /\ all_recipes = <<>>
    /\ extracted = <<>>
    /\ driver = [opened |-> 0, open |-> 0]
    /\ navLog = <<>>
    /\ writes = 0
    /\ printed = NoValue
    /\ ret = NoValue

\* python sitemap_parser.py: extract_all_recipe_urls called on its own
InitCollect ==
    /\ network \in {"images", "tags"}
    /\ limit \in 1..MaxLimit
    /\ pc = "index"
    /\ InitCollectVars
    /\ InitRobotsVars
    /\ InitBatchVars
    /\ file = NoFile

SpecCollect == InitCollect /\ [][NextCollect]_vars

InitResolver ==
    /\ network = "resolver"
    /\ limit \in 1..MaxLimit
    /\ pc = "index"
    /\ InitCollectVars
    /\ InitRobotsVars
    /\ InitBatchVars
    /\ file = NoFile

NextResolver == GetRecipeSitemapLinks

SpecResolver == InitResolver /\ [][NextResolver]_vars

\* a call of extract_recipe_data(url) on its own
InitExtract ==
    /\ network = "pages"
    /\ limit = 1
    /\ pc = "open"
    /\ InitCollectVars
    /\ InitRobotsVars
    /\ url \in {UrlA, UrlB}
    /\ soup = <<>>
    /\ idx = 0
    /\ all_recipes = <<>>
    /\ extracted = <<>>
    /\ driver = [opened |-> 0, open |-> 0]
    /\ navLog = <<>>
    /\ file = NoFile
    /\ writes = 0
    /\ printed = NoValue
    /\ ret = NoValue

SpecExtract == InitExtract /\ [][NextExtract]_vars

\* a call of extract_recipe_data(url) on a page of the named site
InitPage(site) ==
    /\ network = site
    /\ limit = 1
    /\ pc = "open"
    /\ InitCollectVars
    /\ InitRobotsVars
    /\ url = UrlA
    /\ soup = <<>>
    /\ idx = 0
    /\ all_recipes = <<>>
    /\ extracted = <<>>
    /\ driver = [opened |-> 0, open |-> 0]
    /\ navLog = <<>>
    /\ file = NoFile
    /\ writes = 0
    /\ printed = NoValue
    /\ ret = NoValue

InitNutrition == InitPage("nutrition")
SpecNutrition == InitNutrition /\ [][NextExtract]_vars

InitKeywords == InitPage("keywords")
SpecKeywords == InitKeywords /\ [][NextExtract]_vars

InitSteps == InitPage("steps")
SpecSteps == InitSteps /\ [][NextExtract]_vars

InitImage == InitPage("image")
SpecImage == InitImage /\ [][NextExtract]_vars

\* python crawlability_checker.py: a call of analyze_robots_txt()
InitRobots ==
    /\ network = "robots"
    /\ limit = 1
    /\ pc = "robots"
    /\ InitCollectVars
    /\ InitRobotsVars
    /\ InitBatchVars
    /\ file = NoFile

SpecRobots == InitRobots /\ [][NextRobots]_vars

\* python content_extractor.py: batch_scrape_and_save(limit)
InitBatch ==
    /\ network = "batch"
    /\ limit \in 1..MaxLimit
    /\ pc = "start"
    /\ InitCollectVars
    /\ InitRobotsVars
    /\ InitBatchVars
    /\ file \in {NoFile, EarlierFile}

SpecBatch == InitBatch /\ [][NextBatch]_vars

----------------------------------------------------------------------------
(* Claims about the sitemap resolver and the URL collector *)

Min(a, b) == IF a < b THEN a ELSE b

\* positions of s whose entry satisfies Test, and the subsequence they make
MatchingPositions(s, Test(_)) == {k \in 1..Len(s) : Test(s[k])}
IsSubsequenceOfMatches(sub, s, Test(_)) ==
    LET P == MatchingPositions(s, Test) IN
    /\ Len(sub) = Cardinality(P)
    /\ \A k \in P : sub[Cardinality({m \in P : m <= k})] = s[k]

HasSitemapMarker(loc) ==
    \E k \in 1..Len(loc) :
        /\ k + 13 <= Len(loc)
        /\ [j \in 1..14 |-> loc[k + j - 1]] = <<"r","e","c","i","p","e","-","s","i","t","e","m","a","p">>

Qualifies(u) ==
    /\ \E k \in 1..Len(u) :
        /\ k + 8 <= Len(u)
        /\ [j \in 1..9 |-> u[k + j - 1]] = <<"/","r","e","c","i","p","e","s","/">>
    /\ \A suf \in { <<".","j","p","g">>, <<".","p","n","g">>, <<".","j","p","e","g">> } :
        \/ Len(u) < Len(suf)
        \/ [j \in 1..Len(suf) |-> u[Len(u) - Len(suf) + j]] # suf

\* the child sitemap fetches of the log (the first fetch is the index)
ChildFetches == IF fetchLog = <<>> THEN <<>> ELSE Tail(fetchLog)

RECURSIVE Discovered(_)
\* the qualifying locations of the fetched child sitemaps, in discovery order
Discovered(fetches) ==
    IF fetches = <<>> THEN <<>>
    ELSE LET locs == Head(fetches).locs
             q == CHOOSE sub \in SeqsUpTo({locs[k] : k \in 1..Len(locs)}, Len(locs)) :
                      IsSubsequenceOfMatches(sub, locs, Qualifies)
         IN q \o Discovered(Tail(fetches))

C3_LinksAreMarkedSubsequence ==
    pc = "links" =>
        /\ links.returned
        /\ IsSubsequenceOfMatches(links.value, fetchLog[1].locs, HasSitemapMarker)

\* an index with a repeated recipe sitemap, another sitemap and a capitalised one
C3_Witness ==
    /\ pc = "links"
    /\ \E a, b \in 1..Len(links.value) : a # b /\ links.value[a] = links.value[b]
    /\ \E k \in 1..Len(fetchLog[1].locs) : fetchLog[1].locs[k] = CapitalSitemap
    /\ \E k \in 1..Len(fetchLog[1].locs) : fetchLog[1].locs[k] = PostSitemap

\* C4: only the first 3 child sitemaps the resolver returned are ever fetched.
C4_OnlyFirstThreeFetched ==
    /\ Len(ChildFetches) <= 3
    /\ ChildFetches # <<>> =>
         /\ links.returned
         /\ \A k \in 1..Len(ChildFetches) : ChildFetches[k].url = links.value[k]
         /\ \A k \in 4..Len(links.value) :
               \A f \in 1..Len(ChildFetches) : ChildFetches[f].url # links.value[k]

\* the resolver returned more than 3 sitemaps, the first 3 gave fewer than limit
C4_Witness ==
    /\ pc = "collected"
    /\ Len(links.value) > 3
    /\ Len(ChildFetches) = 3
    /\ Len(recipe_urls) < limit

\* C5: the limit is tested once after each whole child sitemap: a child sitemap
\* is fetched only while the accumulator holds fewer than limit entries, and the
\* whole of its qualifying locations is appended, also beyond limit.
C5_LimitTestedPerSitemap ==
    [][fetchLog' # fetchLog /\ fetchLog # <<>> =>
         /\ Len(recipe_urls) < limit
         /\ recipe_urls' = recipe_urls \o Discovered(<<fetchLog'[Len(fetchLog')]>>)]_vars

\* the accumulator exceeds limit, after a second sitemap was fetched below it
C5_Witness ==
    /\ Len(recipe_urls) > limit
    /\ Len(ChildFetches) >= 2
    /\ pc = "return"

C6_NonSuccess(entry) == entry.status < 200 \/ entry.status >= 300

\* C6: a non-success response to the fetch of the index or of a child sitemap
\* ends the call with a failure: nothing is fetched after it, and no URL list
\* is returned.
C6_FetchFailureIsFatal ==
    /\ [](\A k \in 1..Len(fetchLog) :
            C6_NonSuccess(fetchLog[k]) =>
                /\ k = Len(fetchLog)
                /\ exception = "HTTPError"
                /\ pc = "failed"
                /\ ~result.returned)
    /\ [][pc = "failed" => FALSE]_vars

\* the third child sitemap fails after URLs were accumulated
C6_Witness ==
    /\ pc = "failed"
    /\ Len(fetchLog) = 4
    /\ C6_NonSuccess(fetchLog[4])
    /\ recipe_urls # <<>>

----------------------------------------------------------------------------
(* Claims about the batch run *)

HasIngredient(record) == Len(record.ingredients) >= 1

\* C2: after a batch run that completes, the written collection is exactly the
\* subsequence, in discovery order, of the records extracted from the collected
\* URLs that have at least one ingredient; duplicates of a URL are kept.
C2_WrittenAreRecordsWithIngredients ==
    pc = "done" =>
        /\ file.by = "this run"
        /\ Len(extracted) = Len(result.value)
        /\ \A k \in 1..Len(extracted) : extracted[k].url = result.value[k]
        /\ IsSubsequenceOfMatches(file.content, extracted, HasIngredient)

\* a completed run that discarded a record and wrote two records of one URL
C2_Witness ==
    /\ pc = "done"
    /\ Len(file.content) < Len(extracted)
    /\ \E a, b \in 1..Len(file.content) : a # b /\ file.content[a].url = file.content[b].url

\* C7 as stated: a completed batch run returns the count of records written.
C7_ReturnsCountWritten ==
    pc = "done" =>
        /\ ret.returned
        /\ ret.value = PyInt(Len(file.content))

\* C7, amended: a completed batch run reports the count of records written on
\* its final output line and returns None.
C7_PrintsCountWritten ==
    pc = "done" =>
        /\ file.by = "this run"
        /\ printed = Returned(Len(file.content))
        /\ ret = Returned(PyNone)

\* a completed run that wrote fewer records than it extracted, and at least one
C7_Witness ==
    /\ pc = "done"
    /\ Len(file.content) >= 1
    /\ Len(file.content) < Len(extracted)
    /\ printed.returned

\* C8: the output file is written at most once, and only after every collected
\* URL was extracted.
C8_WrittenOnceAfterAllExtracted ==
    /\ writes <= 1
    /\ (file.by = "this run") = (writes = 1)
    /\ (~result.returned \/ Len(extracted) < Len(result.value)) =>
          /\ writes = 0
          /\ file \in {NoFile, EarlierFile}

\* the file is written after three URLs were extracted
C8_Witness ==
    /\ writes = 1
    /\ Len(result.value) = 3
    /\ Len(extracted) = 3

\* C9: when a page fails to render the batch run aborts: the failure is not
\* caught, retried or skipped, no later URL is extracted, and the output file
\* stays as it was, without the records retained so far.
C9_RenderFailureAborts ==
    /\ [](\A k \in 1..Len(navLog) :
            ~navLog[k].ok =>
                /\ k = Len(navLog)
                /\ navLog[k].url = result.value[k]
                /\ exception = "WebDriverException"
                /\ pc = "failed"
                /\ Len(extracted) = k - 1
                /\ driver.opened = k
                /\ writes = 0
                /\ file \in {NoFile, EarlierFile}
                /\ ~printed.returned
                /\ ~ret.returned)
    /\ [][pc = "failed" => FALSE]_vars

\* the third page fails after two records were retained
C9_Witness ==
    /\ pc = "failed"
    /\ Len(navLog) = 3
    /\ ~navLog[3].ok
    /\ Len(all_recipes) = 2
    /\ file = EarlierFile

\* every page of the run so far has rendered
AllRendered == \A k \in 1..Len(navLog) : navLog[k].ok

\* C17: in a batch run in which every page renders, each collected URL is
\* extracted exactly once, in collector order; each extraction opens exactly one
\* browser session before it navigates and releases it before it returns; at most
\* one session is open at any time, and none is open when an extraction has
\* returned or when the output file is written.
C17_OneSessionPerExtraction ==
    AllRendered =>
        /\ driver.open <= 1
        /\ driver.opened = Len(extracted) + driver.open
        /\ Len(extracted) <= Len(navLog)
        /\ Len(navLog) <= driver.opened
        /\ navLog # <<>> =>
              /\ result.returned
              /\ Len(navLog) <= Len(result.value)
              /\ \A k \in 1..Len(navLog) : navLog[k].url = result.value[k]
              /\ \A k \in 1..Len(extracted) : extracted[k].url = result.value[k]
        /\ pc \in {"navigate", "parse"} => driver.open = 1
        /\ pc \in {"returned", "write", "done"} => driver.open = 0
        /\ writes > 0 => driver.open = 0
        /\ pc \in {"write", "done"} =>
              /\ Len(extracted) = Len(result.value)
              /\ driver.opened = Len(result.value)

\* a completed run over three URLs, two of them the same, with three sessions
\* opened and released
C17_Witness ==
    /\ pc = "done"
    /\ AllRendered
    /\ Len(result.value) = 3
    /\ \E j, k \in 1..3 : j # k /\ result.value[j] = result.value[k]
    /\ driver = [opened |-> 3, open |-> 0]
    /\ writes = 1

----------------------------------------------------------------------------
(* Claims about the page extractor *)

Fields ==
    {"url", "title", "description", "image_url", "ingredients", "instructions", "rating",
     "prep_time", "cook_time", "total_time", "nutrition", "categories", "keywords"}
ScalarFields ==
    {"title", "description", "image_url", "rating", "prep_time", "cook_time", "total_time"}
\* the fields read from elements of the document
ElementFields == Fields \ {"url", "keywords"}

\* whether el is an element field f is read from
ElementOf(f, el) ==
    CASE f = "title" -> el.tag = "h1"
      [] f = "description" -> el.tag = "meta" /\ "description" \in el.attrs.name
      [] f = "image_url" -> el.tag = "img"
      [] f = "ingredients" -> el.tag = "li" /\ "ul.recipe-ingredients__list" \in el.within
      [] f = "instructions" -> el.tag = "li" /\ el.cls \cap {"recipe-directions__item", "step"} # {}
      [] f = "rating" -> el.tag = "span" /\ "review-average" \in el.cls
      [] f = "prep_time" -> el.tag = "span" /\ "prep-time" \in el.cls
      [] f = "cook_time" -> el.tag = "span" /\ "cook-time" \in el.cls
      [] f = "total_time" -> el.tag = "span" /\ "total-time" \in el.cls
      [] f = "nutrition" -> el.tag = "li" /\ "div.nutrition-section" \in el.within
      [] f = "categories" -> el.tag = "a" /\ "category-link" \in el.cls
      [] OTHER -> FALSE

Absent(f, doc) == \A k \in 1..Len(doc) : ~ElementOf(f, doc[k])

HasSentinel(record, f) ==
    IF f \in ScalarFields THEN record[f] = <<"N","/","A">>
    ELSE IF f = "nutrition" THEN DOMAIN record[f] = {}
    ELSE record[f] = <<>>

\* doc with the elements of field f taken out, those that are also g's left in
WithoutElementsOf(doc, f, g) ==
    Drop(doc, {k \in 1..Len(doc) : ElementOf(f, doc[k]) /\ ~ElementOf(g, doc[k])})

LastRecord == extracted[Len(extracted)]

SourceOf(g, el) ==
    IF g = "keywords"
    THEN ElementOf("description", el) \/ ElementOf("instructions", el)
    ELSE ElementOf(g, el)

\* doc with the elements of field f taken out, those g is computed from left in
WithoutSourcesOf(doc, f, g) ==
    Drop(doc, {k \in 1..Len(doc) : ElementOf(f, doc[k]) /\ ~SourceOf(g, doc[k])})

C18_FailedNavigationLeavesSessionOpen ==
    /\ [](\A k \in 1..Len(navLog) :
            ~navLog[k].ok =>
                /\ pc = "failed"
                /\ exception = "WebDriverException"
                /\ driver.opened >= 1
                /\ driver.open = 1
                /\ extracted = <<>>)
    /\ [][pc = "failed" => driver' = driver]_vars

\* the call has failed in navigation with its one session open
C18_Witness ==
    /\ pc = "failed"
    /\ exception = "WebDriverException"
    /\ Len(navLog) = 1
    /\ ~navLog[1].ok
    /\ driver = [opened |-> 1, open |-> 1]

----------------------------------------------------------------------------
(* Claims about single fields of the record *)

\* s without its leading and trailing whitespace
Trimmed(s) ==
    LET inner == {k \in 1..Len(s) : s[k] \notin {" ", "\t", "\n"}} IN
    IF inner = {} THEN <<>>
    ELSE LET a == CHOOSE k \in inner : \A j \in inner : k <= j
             b == CHOOSE k \in inner : \A j \in inner : j <= k
         IN [k \in 1..(b - a + 1) |-> s[a + k - 1]]

HasColon(t) == \E k \in 1..Len(t) : t[k] = ":"
ColonAt(t) == CHOOSE k \in 1..Len(t) : t[k] = ":" /\ ~ \E j \in 1..(k - 1) : t[j] = ":"
LabelOf(t) == Trimmed([k \in 1..(ColonAt(t) - 1) |-> t[k]])
ValueOf(t) == Trimmed([k \in 1..(Len(t) - ColonAt(t)) |-> t[ColonAt(t) + k]])

\* the texts of the list items of the nutrition section, in document order
NutritionItemTexts(doc) ==
    LET P == {k \in 1..Len(doc) : doc[k].tag = "li" /\ "div.nutrition-section" \in doc[k].within}
    IN [n \in 1..Cardinality(P) |->
          doc[CHOOSE k \in P : Cardinality({m \in P : m <= k}) = n].text]

\* C11: the nutrition mapping has exactly one entry per distinct trimmed label
\* among the items that contain a colon; an item is split at its first colon only,
\* label and value are trimmed, an item without a colon contributes nothing, and
\* for a repeated label the value of the last item in document order wins.
C11_NutritionIsLastValuePerLabel ==
    pc = "returned" =>
        LET items == NutritionItemTexts(soup)
            withColon == {k \in 1..Len(items) : HasColon(items[k])}
            nutrition == LastRecord.nutrition
        IN /\ DOMAIN nutrition = {LabelOf(items[k]) : k \in withColon}
           /\ \A k \in withColon :
                 (\A j \in withColon : j > k => LabelOf(items[j]) # LabelOf(items[k]))
                     => nutrition[LabelOf(items[k])] = ValueOf(items[k])

\* a label given twice, the later value holding a colon of its own, and an item
\* without a colon
C11_Witness ==
    /\ pc = "returned"
    /\ LET items == NutritionItemTexts(soup) IN
       /\ \E j, k \in 1..Len(items) :
             /\ j < k /\ HasColon(items[j]) /\ HasColon(items[k])
             /\ LabelOf(items[j]) = LabelOf(items[k])
             /\ ValueOf(items[j]) # ValueOf(items[k])
             /\ HasColon(ValueOf(items[k]))
             /\ LastRecord.nutrition[LabelOf(items[k])] = ValueOf(items[k])
       /\ \E k \in 1..Len(items) : ~HasColon(items[k])

RECURSIVE Spaced(_)
\* the texts of parts with one space between them
Spaced(parts) ==
    IF parts = <<>> THEN <<>>
    ELSE IF Len(parts) = 1 THEN parts[1]
    ELSE parts[1] \o <<" ">> \o Spaced(Tail(parts))

\* the text the keywords of a record are taken from
Blob(record) == record.description \o <<" ">> \o Spaced(record.instructions)

WordChar(c) == c \in Letters \cup DigitChars \cup {"_"}
\* the positions of text where a token starts, and the token that starts there
TokenStarts(text) ==
    {a \in 1..Len(text) : WordChar(text[a]) /\ (a = 1 \/ ~WordChar(text[a - 1]))}
TokenAt(text, a) ==
    LET b == CHOOSE e \in a..Len(text) :
                 /\ \A k \in a..e : WordChar(text[k])
                 /\ (e = Len(text) \/ ~WordChar(text[e + 1]))
    IN Lower([k \in 1..(b - a + 1) |-> text[a + k - 1]])
Freq(text, w) == Cardinality({a \in TokenStarts(text) : TokenAt(text, a) = w})
FirstAt(text, w) ==
    CHOOSE a \in TokenStarts(text) :
        /\ TokenAt(text, a) = w
        /\ \A c \in TokenStarts(text) : TokenAt(text, c) = w => a <= c
Eligible(text) ==
    {w \in {TokenAt(text, a) : a \in TokenStarts(text)} : Len(w) >= 4 /\ w \notin Stopwords}

\* C12: keywords holds at most 10 distinct lowercase tokens of
\* description + " " + joined instructions, each at least 4 characters long and
\* not in the stoplist, ordered by frequency descending with ties broken by first
\* occurrence; a token left out is never more frequent than a listed one, and is
\* left out only when 10 are listed.
C12_KeywordsAreTopTenByFrequency ==
    pc = "returned" =>
        LET kw == LastRecord.keywords
            text == Blob(LastRecord)
        IN /\ Len(kw) <= 10
           /\ \A j, k \in 1..Len(kw) : j # k => kw[j] # kw[k]
           /\ \A k \in 1..Len(kw) :
                 /\ kw[k] \in Eligible(text)
                 /\ kw[k] = Lower(kw[k])
           /\ \A j, k \in 1..Len(kw) :
                 j < k =>
                   \/ Freq(text, kw[j]) > Freq(text, kw[k])
                   \/ /\ Freq(text, kw[j]) = Freq(text, kw[k])
                      /\ FirstAt(text, kw[j]) < FirstAt(text, kw[k])
           /\ \A w \in Eligible(text) \ {kw[k] : k \in 1..Len(kw)} :
                 /\ Len(kw) = 10
                 /\ \A k \in 1..Len(kw) : Freq(text, w) <= Freq(text, kw[k])

\* ten keywords listed and an eleventh left out on a tie, a later token ranked
\* before an earlier one, and a stopword in capitals in the text
C12_Witness ==
    /\ pc = "returned"
    /\ LET kw == LastRecord.keywords
           text == Blob(LastRecord)
       IN /\ Len(kw) = 10
          /\ \E w \in Eligible(text) :
                /\ \A k \in 1..10 : kw[k] # w
                /\ Freq(text, w) = Freq(text, kw[10])
          /\ \E j, k \in 1..10 : j < k /\ FirstAt(text, kw[j]) > FirstAt(text, kw[k])
          /\ \E a \in TokenStarts(text) :
                TokenAt(text, a) \in Stopwords /\ text[a] # Lower(text)[a]
          /\ LastRecord.instructions # <<>>

\* the trimmed texts of the elements of doc that pass Test, in document order
TextsWhere(doc, Test(_)) ==
    LET P == {k \in 1..Len(doc) : Test(doc[k])} IN
    [n \in 1..Cardinality(P) |->
        Trimmed(doc[CHOOSE k \in P : Cardinality({m \in P : m <= k}) = n].text)]

IsDirectionsItem(el) == el.tag = "li" /\ "recipe-directions__item" \in el.cls
IsStepItem(el) == el.tag = "li" /\ "step" \in el.cls

RECURSIVE WithoutEmpty(_)
WithoutEmpty(texts) ==
    IF texts = <<>> THEN <<>>
    ELSE IF Head(texts) = <<>> THEN WithoutEmpty(Tail(texts))
    ELSE <<Head(texts)>> \o WithoutEmpty(Tail(texts))

\* C15: instructions equals the non-empty texts, in document order, of the
\* directions items when the document has at least one, and otherwise the texts
\* of the list items whose class list contains "step"; the fallback is never
\* used when a directions item was found, and instructions never contains an
\* empty string taken from a directions item.
C15_InstructionsAreNonEmptyDirections ==
    pc = "returned" =>
        LET primary == TextsWhere(soup, IsDirectionsItem)
            fallback == TextsWhere(soup, IsStepItem)
        IN IF primary # <<>>
           THEN /\ LastRecord.instructions = WithoutEmpty(primary)
                /\ \A k \in 1..Len(LastRecord.instructions) :
                      LastRecord.instructions[k] # <<>>
           ELSE LastRecord.instructions = fallback

\* the positions of doc matched by the three image selectors, in their fixed order
ImageMatches(doc) ==
    << {k \in 1..Len(doc) : doc[k].tag = "img" /\ "div.recipe-image" \in doc[k].within},
       {k \in 1..Len(doc) : doc[k].tag = "img" /\ "primary-image" \in doc[k].cls},
       {k \in 1..Len(doc) : doc[k].tag = "img"} >>
\* the position of the element that decides image_url, 0 when no selector matches
DecidingImage(doc) ==
    LET matches == ImageMatches(doc) IN
    IF \A n \in 1..3 : matches[n] = {} THEN 0
    ELSE LET n == CHOOSE m \in 1..3 : matches[m] # {} /\ \A j \in 1..(m - 1) : matches[j] = {}
         IN CHOOSE k \in matches[n] : \A j \in matches[n] : k <= j

\* C16: image_url is decided by the first selector that matches, in the order
\* recipe-image container image, primary-image class, first image of the page:
\* it is that element's source when it has one, and "N/A" when no selector
\* matches or that element has no source, even if a later selector would match
\* an image that has one.
C16_ImageFromFirstMatchingSelector ==
    pc = "returned" =>
        LET k == DecidingImage(soup) IN
        IF k = 0 THEN LastRecord.image_url = <<"N","/","A">>
        ELSE IF soup[k].attrs.src = {} THEN LastRecord.image_url = <<"N","/","A">>
        ELSE LastRecord.image_url \in soup[k].attrs.src

\* the deciding image has no source and comes after an image with a source that
\* only a later selector matches
C16_Witness ==
    /\ pc = "returned"
    /\ LET k == DecidingImage(soup) IN
       /\ k > 1
       /\ soup[k].attrs.src = {}
       /\ \E j \in 1..(k - 1) : soup[j].tag = "img" /\ soup[j].attrs.src # {}
       /\ LastRecord.image_url = <<"N","/","A">>

----------------------------------------------------------------------------
(* Claims about the robots analyser *)

\* whether the trimmed line t starts with pre, and whether it does in any case
Begins(t, pre) == Len(t) >= Len(pre) /\ \A k \in 1..Len(pre) : t[k] = pre[k]
BeginsAnyCase(t, pre) == Begins(Lower(t), pre)

\* the second colon-separated field of t, trimmed
SecondFieldOf(t) ==
    LET first == ColonAt(t)
        later == {k \in (first + 1)..Len(t) : t[k] = ":"}
        last == IF later = {} THEN Len(t)
                ELSE (CHOOSE k \in later : \A j \in later : k <= j) - 1
    IN Trimmed([k \in 1..(last - first) |-> t[first + k]])

IsDisallowLine(t) == Begins(t, <<"D","i","s","a","l","l","o","w">>)
IsAllowLine(t) == Begins(t, <<"A","l","l","o","w">>)
IsSitemapLine(t) == BeginsAnyCase(t, <<"s","i","t","e","m","a","p">>)
IsCrawlDelayLine(t) == BeginsAnyCase(t, <<"c","r","a","w","l","-","d","e","l","a","y">>)

\* Field of the lines that pass Test, in line order
FieldsOfLines(lines, Test(_), Field(_)) ==
    LET P == {k \in 1..Len(lines) : Test(Trimmed(lines[k]))} IN
    [n \in 1..Cardinality(P) |->
        Field(Trimmed(lines[CHOOSE k \in P : Cardinality({m \in P : m <= k}) = n]))]

\* the summary the lines of the fetched document call for
SummaryMatchesLines ==
    LET lines == robotsLog[1].lines
        delays == FieldsOfLines(lines, IsCrawlDelayLine, SecondFieldOf)
    IN /\ summary.returned
       /\ DOMAIN summary.value = {"Allowed", "Disallowed", "Sitemaps", "Crawl-Delay"}
       /\ summary.value["Disallowed"] = FieldsOfLines(lines, IsDisallowLine, SecondFieldOf)
       /\ summary.value["Allowed"] = FieldsOfLines(lines, IsAllowLine, SecondFieldOf)
       /\ summary.value["Sitemaps"] = FieldsOfLines(lines, IsSitemapLine, ValueOf)
       /\ summary.value["Crawl-Delay"] =
             IF delays = <<>> THEN [type |-> "NoneType"]
             ELSE [type |-> "str", val |-> delays[Len(delays)]]

\* the call has ended on a document that was fetched with status 200
AnalysisEnded ==
    /\ robotsLog # <<>>
    /\ robotsLog[1].status = 200
    /\ pc # "scan"

\* C13: for every sequence of robots.txt lines analyze_robots_txt returns a
\* summary in which Disallowed and Allowed hold, in line order, the second
\* colon-separated field of each line starting with "Disallow" resp. "Allow",
\* Sitemaps holds everything after the first colon of each line starting with
\* "sitemap" in any case, and Crawl-Delay is the value of the last "crawl-delay"
\* line in any case, or null when there is none.
C13_SummaryForEveryLineSequence == AnalysisEnded => SummaryMatchesLines

\* C14 as stated: a non-success status on the fetch of the robots document is not
\* retried, propagates to the caller as a failure and aborts the call, and no
\* value is returned to the caller.
C14_FailedFetchRaises ==
    /\ Len(robotsLog) <= 1
    /\ \A k \in 1..Len(robotsLog) :
          (robotsLog[k].status < 200 \/ robotsLog[k].status >= 300) =>
              /\ pc = "failed"
              /\ exception # "none"
              /\ ~summary.returned

\* C14, amended: a status other than 200 on the fetch of the robots document is
\* not retried and raises nothing: the call ends at once, without reading a
\* line, and returns to its caller a value with the single key "error" that
\* reports the status, in place of the summary.
C14_FailedFetchReturnsErrorValue ==
    /\ Len(robotsLog) <= 1
    /\ \A k \in 1..Len(robotsLog) :
          robotsLog[k].status # 200 =>
              /\ pc = "analyzed"
              /\ exception = "none"
              /\ summary.returned
              /\ DOMAIN summary.value = {"error"}
              /\ summary.value["error"] = robotsLog[k].status
              /\ robots.n = 0

\* a fetch answered 404, one answered 204 with a line in its body
C14_Witness ==
    /\ pc = "analyzed"
    /\ robotsLog # <<>>
    /\ robotsLog[1].status \in {404, 204}
    /\ robotsLog[1].status = 204 => robotsLog[1].lines # <<>>
    /\ summary.returned
    /\ "error" \in DOMAIN summary.value

====
